---------------------------- MODULE Spec2Model ----------------------------
(***************************************************************************)
(* Model of the edu-chatbot Streamlit application:                         *)
(*   src/aws_secrets_initialization.py  process start: credentials, the    *)
(*                                      shared DynamoDB history, API keys  *)
(*   src/chat_retrieval.py              the retrieval tool of the agent    *)
(*   src/chat_st.py                     the chat script, rerun by          *)
(*                                      Streamlit on every user event      *)
(*                                                                         *)
(* Strings the code transforms (document sources) are sequences of         *)
(* one-character strings; strings it only stores or compares are TLA+      *)
(* strings.  Python's None is the string "None".  Numbers with decimals    *)
(* (relevance scores) are fixed-point, in hundredths.                      *)
(*                                                                         *)
(* Scope.  The DynamoDB table starts empty and a write to it either        *)
(* appends the message or raises.  A session's events are taken between    *)
(* its script runs and while it waits for the agent; a click that          *)
(* interrupts a run in progress is not modelled.  The session keys         *)
(* "messages" and "prompt" of initialize_session_state are never read by   *)
(* the script and are left out; the variable prompt is the local of        *)
(* run_chat_interface (line 174).                                          *)
(***************************************************************************)
EXTENDS Naturals, Sequences, FiniteSets, TLC

(***************************************************************************)
(* Bounds of the model.                                                    *)
(***************************************************************************)
\* entries the DynamoDB table holds, over all its items
MaxStore == 3
\* turns one session keeps in its local memory
MaxTurns == 2
\* values int(time.time()) can take
MaxTime == 2
\* pieces a document source of the formatting specification is built of
MaxPieces == 3

(***************************************************************************)
(* Program constants.                                                      *)
(***************************************************************************)
\* aws_secrets_initialization.py:22, the session_id of dynamodb_history
SESSION_ID == "99"
\* chat_st.py:25, setdefault("feedback_value", 3)
DefaultFeedbackValue == 3
\* chat_st.py:191, the slider's range
MinRating == 1
MaxRating == 5
\* chat_retrieval.py:39, the name of the retrieval tool
KnowledgeBase == "Knowledge Base"
\* chat_st.py:92, the tool name AgentExecutor gives a parsing-error step
ExceptionTool == "_Exception"
\* the observation AgentExecutor(handle_parsing_errors=True) records with it
ParsingErrorObservation == "Invalid or incomplete response"

None == "None"
EmptyFcn == [k \in {} |-> k]

\* the two arguments of str.replace in chat_st.py:71
S3Prefix == << "s", "3", ":", "/", "/" >>
HttpsPrefix ==
  << "h", "t", "t", "p", "s", ":", "/", "/", "s", "3", ".", "a", "m", "a",
     "z", "o", "n", "a", "w", "s", ".", "c", "o", "m", "/" >>

(***************************************************************************)
(* Pure functions of chat_st.py.                                           *)
(***************************************************************************)
\* dict.get(key, default)
Get(d, key, default) == IF key \in DOMAIN d THEN d[key] ELSE default

\* str.replace(old, new): every non-overlapping occurrence of old, scanning
\* from the left, is replaced by new (old is not empty)
RECURSIVE Replace(_, _, _)
Replace(s, old, new) ==
  IF Len(s) < Len(old) THEN s
  ELSE IF SubSeq(s, 1, Len(old)) = old
       THEN new \o Replace(SubSeq(s, Len(old) + 1, Len(s)), old, new)
       ELSE << Head(s) >> \o Replace(Tail(s), old, new)

\* one row of the DataFrame, chat_st.py:70-78
FormatRow(document) ==
  LET metadata == document.metadata
  IN  [ Title |-> Get(metadata, "title", ""),
        Page |-> Get(metadata, "page", ""),
        Source |-> Replace(Get(metadata, "source", << >>), S3Prefix, HttpsPrefix),
        RelevanceScore |-> Get(metadata, "relevance_score", 0) * 100 ]

\* format_search_results_as_dataframe: one row per document, in order
FormatSearchResultsAsDataframe(documents) ==
  [ i \in 1..Len(documents) |-> FormatRow(documents[i]) ]


\* str(index), the key of st.session_state['steps'] (chat_st.py:91)
Str(n) == << "0", "1", "2", "3", "4", "5", "6", "7", "8", "9" >>[n + 1]

\* render_intermediate_steps: the steps stored under str(index), without
\* those of the "_Exception" tool; each is rendered as a status box
RenderIntermediateSteps(index, message, stepsDict) ==
  LET stored == Get(stepsDict, Str(index), << >>)
      kept == SelectSeq(stored, LAMBDA step : step[1].tool # ExceptionTool)
  IN  [ i \in 1..Len(kept) |->
          [ tool |-> kept[i][1].tool, tool_input |-> kept[i][1].tool_input,
            log |-> kept[i][1].log, result |-> kept[i][2] ] ]

\* the "Display chat history" loop of run_chat_interface
DisplayHistory(messages, stepsDict) ==
  [ i \in 1..Len(messages) |->
      [ avatar |-> IF messages[i].type = "human" THEN "user" ELSE "assistant",
        rendered |-> RenderIntermediateSteps(i - 1, messages[i], stepsDict),
        content |-> messages[i].content ] ]

\* iterating the sources in format_search_results_as_dataframe reads
\* document.metadata: a str observation yields its characters, which have
\* none (AttributeError); an empty str yields nothing
RaisesAttributeError(sources) == sources.kind = "str" /\ sources.value # ""

\* what the loop of format_search_results_as_dataframe iterates over
DocumentsOf(sources) == IF sources.kind = "list" THEN sources.value ELSE << >>

\* display_chat_response: the answer is written; the sources are taken from
\* the first intermediate step whatever its tool; only IndexError (no step)
\* is caught; the Sources table is rendered whenever the DataFrame was built
DisplayChatResponse(response) ==
  LET isteps == response.intermediate_steps
  IN  IF Len(isteps) = 0
      THEN [ raised |-> FALSE, answer |-> response.output,
             tables |-> << >>, citeFrom |-> << >> ]
      ELSE LET sources == isteps[1][2]
           IN  IF RaisesAttributeError(sources)
               THEN [ raised |-> TRUE, answer |-> response.output,
                      tables |-> << >>, citeFrom |-> << isteps[1][1].tool >> ]
               ELSE [ raised |-> FALSE, answer |-> response.output,
                      tables |-> << FormatSearchResultsAsDataframe(DocumentsOf(sources)) >>,
                      citeFrom |-> << isteps[1][1].tool >> ]

(***************************************************************************)
(* Process start, aws_secrets_initialization.py.                           *)
(***************************************************************************)
\* what secrets_manager_client.get_secret_value can answer
SecretResponses ==
  { [ kind |-> "error" ],
    [ kind |-> "binary" ],
    [ kind |-> "string", secret_json |-> EmptyFcn ],
    [ kind |-> "string",
      secret_json |-> [ PINECONE_API_KEY |-> "pinecone-key",
                        COHERE_API_KEY |-> "cohere-key" ] ] }

\* fetch_secret_value: the key's value; None when the lookup raises, when
\* the response holds no 'SecretString' or when the key is missing
FetchSecretValue(response, key) ==
  IF response.kind = "error" THEN None
  ELSE IF response.kind = "string" THEN Get(response.secret_json, key, None)
  ELSE None

(***************************************************************************)
(* Inputs of the model.                                                    *)
(***************************************************************************)
\* the browser sessions Streamlit serves, and the token str(uuid4()) gives
\* each of them (tokens of different sessions differ)
Sessions == { "A", "B" }
Uuid == [ A |-> "uuid-1", B |-> "uuid-2" ]

\* what the user types into st.chat_input (never empty: line 174 tests it)
Prompts == { "What is the Education Federal Student Aid?" }
\* the agent's final answers
Outputs == { "Federal Student Aid is ..." }
\* the text area of the feedback form
Comments == { "", "Helpful" }
\* int(time.time()) when handle_feedback runs
Timestamps == 1..MaxTime
\* the slider of the feedback form, chat_st.py:189-193
Ratings == { MinRating, MaxRating }

\* a Document the retrieval tool returns
Handbook ==
  [ metadata |->
      [ title |-> "FSA Handbook", page |-> "12", relevance_score |-> 87,
        source |-> << "s", "3", ":", "/", "/", "b", "/", "a" >> ] ]
DocumentLists == { << >>, << Handbook >> }

\* the intermediate steps of AgentExecutor, (AgentAction, observation):
\* a call of the retrieval tool with the list it returned, or the step that
\* handle_parsing_errors=True records for an unparsable LLM output
ToolStep(documents) ==
  << [ tool |-> KnowledgeBase, tool_input |-> "student aid", log |-> "search" ],
     [ kind |-> "list", value |-> documents ] >>
ExceptionStep ==
  << [ tool |-> ExceptionTool, tool_input |-> ParsingErrorObservation,
       log |-> "Could not parse LLM output" ],
     [ kind |-> "str", value |-> ParsingErrorObservation ] >>
\* tool-call rounds of one agent run
MaxSteps == 2
AgentSteps == { ToolStep(d) : d \in DocumentLists } \cup { ExceptionStep }
StepLists ==
  UNION { [ 1..n -> AgentSteps ] : n \in 0..MaxSteps }
UsesTool(isteps) == \E i \in DOMAIN isteps : isteps[i][1].tool = KnowledgeBase
Responses ==
  { [ output |-> o, intermediate_steps |-> l ] : o \in Outputs, l \in StepLists }

(***************************************************************************)
(* State.                                                                  *)
(***************************************************************************)
VARIABLES
  phase,           \* "starting", "serving", or "failed" (the import raised)
  api_keys,        \* PINECONE_API_KEY and COHERE_API_KEY once imported
  table,           \* the DynamoDB table: session key -> list of messages
  session_id,      \* st.session_state['session_id'], per browser session
  feedback_form,   \* st.session_state['feedback_form']
  feedback_value,  \* st.session_state['feedback_value']
  feedback_text,   \* st.session_state['feedback_text']
  steps,           \* st.session_state['steps']
  msgs,            \* StreamlitChatMessageHistory: the agent's local memory
  pc,              \* "Idle" between script runs, "Processing" in the agent call
  prompt,          \* the prompt of the run in progress
  ui,              \* what the last script run rendered
  event,           \* the step taken last (observer)
  documents,       \* formatting specification: the argument
  dataframe        \* formatting specification: the result

vars ==
  << phase, api_keys, table, session_id, feedback_form, feedback_value,
     feedback_text, steps, msgs, pc, prompt, ui, event, documents, dataframe >>
sessionVars ==
  << session_id, feedback_form, feedback_value, feedback_text, steps, msgs,
     pc, prompt, ui >>
fmtVars == << documents, dataframe >>

\* the observer's record of a step: the handler, the session, and whether
\* the history store accepted the write the step tried (TRUE without one)
Ev(name, s, stored) == [ name |-> name, session |-> s, stored |-> stored ]

Init ==
  /\ phase = "starting"
  /\ api_keys = EmptyFcn
  /\ table = EmptyFcn
  /\ session_id = EmptyFcn
  /\ feedback_form = EmptyFcn
  /\ feedback_value = EmptyFcn
  /\ feedback_text = EmptyFcn
  /\ steps = EmptyFcn
  /\ msgs = EmptyFcn
  /\ pc = EmptyFcn
  /\ prompt = EmptyFcn
  /\ ui = EmptyFcn
  /\ event = Ev("Init", "", TRUE)
  /\ documents = << >>
  /\ dataframe = << >>

(***************************************************************************)
(* The history store.                                                      *)
(***************************************************************************)
\* the item dynamodb_history writes: it was built with session_id=SESSION_ID
\* at import, once for the process, whichever browser session calls it
HistoryKey(s) == SESSION_ID

RECURSIVE SumLen(_, _)
SumLen(f, keys) ==
  IF keys = {} THEN 0
  ELSE LET k == CHOOSE x \in keys : TRUE
       IN  Len(f[k]) + SumLen(f, keys \ { k })
TotalStored == SumLen(table, DOMAIN table)

\* DynamoDBChatMessageHistory.add_message: the message is appended to the
\* list of the item
AddMessage(tbl, key, message) ==
  IF key \in DOMAIN tbl
  THEN [ tbl EXCEPT ![key] = Append(@, message) ]
  ELSE tbl @@ (key :> << message >>)

HumanMessage(id, content) == [ type |-> "human", id |-> id, content |-> content ]
AIMessage(id, content) == [ type |-> "ai", id |-> id, content |-> content ]
\* the SystemMessage of handle_feedback, chat_st.py:39-50
FeedbackMessage(sid, timestamp, value, text) ==
  [ type |-> "system", id |-> "1", user_id |-> "test_user",
    content |-> "feedback", st_session_id |-> sid,
    response_metadata |->
      [ timestamp |-> timestamp, face_feedback |-> value,
        feedback_text |-> text, score |-> value ] ]

(***************************************************************************)
(* Process start.                                                          *)
(***************************************************************************)
\* the import of aws_secrets_initialization: st.secrets["aws_credentials"]
\* raises when the credentials are missing (line 10) and the import fails,
\* to be run again by the next script run; a missing API key is stored as
\* None (lines 59-60) and the import completes
Startup(credentials, r1, r2) ==
  /\ phase \in { "starting", "failed" }
  /\ IF credentials
     THEN /\ phase' = "serving"
          /\ api_keys' =
               [ PINECONE_API_KEY |-> FetchSecretValue(r1, "PINECONE_API_KEY"),
                 COHERE_API_KEY |-> FetchSecretValue(r2, "COHERE_API_KEY") ]
     ELSE /\ phase' = "failed"
          /\ UNCHANGED api_keys
  /\ event' = Ev("Startup", "", TRUE)
  /\ UNCHANGED << table, sessionVars, fmtVars >>

(***************************************************************************)
(* The chat script, chat_st.py.  Streamlit runs it from the top on every   *)
(* user event of a session; a run that waits for the agent is split at     *)
(* that call, the one blocking point with an outcome of its own.           *)
(***************************************************************************)
\* what a run has rendered
Screen(history, error, answer, tables, citeFrom, form) ==
  [ history |-> history, error |-> error, answer |-> answer,
    tables |-> tables, citeFrom |-> citeFrom, form |-> form ]

\* chat_st.py:162, the test that clears the local history and the steps
Clears(s, resetClicked) == Len(msgs[s]) = 0 \/ resetClicked
MsgsAfterClear(s, resetClicked) ==
  IF Clears(s, resetClicked) THEN << >> ELSE msgs[s]
StepsAfterClear(s, resetClicked) ==
  IF Clears(s, resetClicked) THEN EmptyFcn ELSE steps[s]
HistoryShown(s, resetClicked) ==
  DisplayHistory(MsgsAfterClear(s, resetClicked), StepsAfterClear(s, resetClicked))

\* the tool of chat_retrieval.py is built with the two API keys
\* (lines 20 and 32); without one of them it raises and so does the run
ToolAvailable ==
  /\ api_keys.PINECONE_API_KEY # None
  /\ api_keys.COHERE_API_KEY # None

\* a browser connects: initialize_session_state, then the first run of the
\* script, which has no input, finds no message and renders an empty page
Connect(s) ==
  /\ phase = "serving"
  /\ s \notin DOMAIN pc
  /\ session_id' = session_id @@ (s :> Uuid[s])
  /\ feedback_form' = feedback_form @@ (s :> FALSE)
  /\ feedback_value' = feedback_value @@ (s :> DefaultFeedbackValue)
  /\ feedback_text' = feedback_text @@ (s :> "")
  /\ steps' = steps @@ (s :> EmptyFcn)
  /\ msgs' = msgs @@ (s :> << >>)
  /\ pc' = pc @@ (s :> "Idle")
  /\ prompt' = prompt @@ (s :> None)
  /\ ui' = ui @@ (s :> Screen(<< >>, "none", None, << >>, << >>, FALSE))
  /\ event' = Ev("Connect", s, TRUE)
  /\ UNCHANGED << phase, api_keys, table, fmtVars >>

\* the user sends a prompt (lines 162-176): the history is rendered, the
\* prompt is written to the store and the agent is called; when the store
\* raises, main reports it and the run ends before the form
Submit(s, text, stored) ==
  /\ s \in DOMAIN pc
  /\ pc[s] = "Idle"
  /\ Len(msgs[s]) < 2 * MaxTurns
  /\ stored => TotalStored < MaxStore
  /\ msgs' = [ msgs EXCEPT ![s] = MsgsAfterClear(s, FALSE) ]
  /\ steps' = [ steps EXCEPT ![s] = StepsAfterClear(s, FALSE) ]
  /\ IF stored
     THEN /\ table' = AddMessage(table, HistoryKey(s), HumanMessage(session_id[s], text))
          /\ pc' = [ pc EXCEPT ![s] = "Processing" ]
          /\ prompt' = [ prompt EXCEPT ![s] = text ]
          /\ ui' = [ ui EXCEPT ![s] =
                       Screen(HistoryShown(s, FALSE), "none", None, << >>, << >>, FALSE) ]
     ELSE /\ ui' = [ ui EXCEPT ![s] =
                       Screen(HistoryShown(s, FALSE), "main", None, << >>, << >>, FALSE) ]
          /\ UNCHANGED << table, pc, prompt >>
  /\ event' = Ev("Submit", s, stored)
  /\ UNCHANGED << phase, api_keys, session_id, feedback_form,
                  feedback_value, feedback_text, fmtVars >>

\* execute_chat_agent returns the response (lines 178-208): the executor has
\* saved the turn to the local memory; the response is displayed, which may
\* raise; then the answer is written to the store, which may raise; then the
\* form is switched on and rendered.  An exception ends the run in main.
AgentSuccess(s, response, stored) ==
  /\ s \in DOMAIN pc
  /\ pc[s] = "Processing"
  /\ UsesTool(response.intermediate_steps) => ToolAvailable
  /\ stored => TotalStored < MaxStore
  /\ LET shown == DisplayChatResponse(response)
         done == ~shown.raised /\ stored
     IN  /\ msgs' = [ msgs EXCEPT ![s] =
                        @ \o << [ type |-> "human", content |-> prompt[s] ],
                                [ type |-> "ai", content |-> response.output ] >> ]
         /\ table' =
              IF done
              THEN AddMessage(table, HistoryKey(s), AIMessage(session_id[s], response.output))
              ELSE table
         /\ feedback_form' = [ feedback_form EXCEPT ![s] = IF done THEN TRUE ELSE @ ]
         /\ ui' = [ ui EXCEPT ![s] =
                      Screen(@.history, IF done THEN "none" ELSE "main", shown.answer,
                             shown.tables, shown.citeFrom, done) ]
         /\ event' = Ev("AgentSuccess", s, stored)
  /\ pc' = [ pc EXCEPT ![s] = "Idle" ]
  /\ prompt' = [ prompt EXCEPT ![s] = None ]
  /\ UNCHANGED << phase, api_keys, session_id, feedback_value,
                  feedback_text, steps, fmtVars >>

\* mutant of AgentFailure: the failure is returned as a response and its
\* text is recorded as the answer
AgentFailureRecorded(s) ==
  /\ s \in DOMAIN pc
  /\ pc[s] = "Processing"
  /\ table' = AddMessage(table, HistoryKey(s), AIMessage(session_id[s], "error"))
  /\ ui' = [ ui EXCEPT ![s] =
               Screen(@.history, "agent", None, << >>, << >>, feedback_form[s] = TRUE) ]
  /\ pc' = [ pc EXCEPT ![s] = "Idle" ]
  /\ prompt' = [ prompt EXCEPT ![s] = None ]
  /\ event' = Ev("AgentFailure", s, TRUE)
  /\ UNCHANGED << phase, api_keys, session_id, feedback_form,
                  feedback_value, feedback_text, steps, msgs, fmtVars >>

\* execute_chat_agent catches the executor's exception, reports it and
\* returns None (lines 118-122): nothing is displayed or stored; the form
\* is rendered when feedback_form is (still) True
AgentFailure(s) ==
  /\ s \in DOMAIN pc
  /\ pc[s] = "Processing"
  /\ ui' = [ ui EXCEPT ![s] =
               Screen(@.history, "agent", None, << >>, << >>, feedback_form[s] = TRUE) ]
  /\ pc' = [ pc EXCEPT ![s] = "Idle" ]
  /\ prompt' = [ prompt EXCEPT ![s] = None ]
  /\ event' = Ev("AgentFailure", s, TRUE)
  /\ UNCHANGED << phase, api_keys, table, session_id, feedback_form,
                  feedback_value, feedback_text, steps, msgs, fmtVars >>

\* mutant of HandleFeedback: the message is added twice
HandleFeedbackTwice(tbl, s, timestamp, stored) ==
  IF stored
  THEN LET m == FeedbackMessage(session_id[s], timestamp, feedback_value'[s],
                                feedback_text'[s])
       IN  AddMessage(AddMessage(tbl, HistoryKey(s), m), HistoryKey(s), m)
  ELSE tbl

\* handle_feedback (lines 30-55) with the values the form handed over: one
\* SystemMessage is added to the store; when the store raises, the error is
\* reported and nothing is added
HandleFeedback(tbl, s, timestamp, stored) ==
  IF stored
  THEN AddMessage(tbl, HistoryKey(s),
                  FeedbackMessage(session_id[s], timestamp, feedback_value'[s],
                                  feedback_text'[s]))
  ELSE tbl

\* the user submits the feedback form that is on the screen (lines 186-208):
\* the values are stored in the session, handle_feedback runs, the form is
\* switched off and st.rerun() renders the page again, without the form
SubmitFeedback(s, value, text, timestamp, stored) ==
  /\ s \in DOMAIN pc
  /\ pc[s] = "Idle"
  /\ ui[s].form
  /\ feedback_form[s] = TRUE
  /\ stored => TotalStored < MaxStore
  /\ msgs' = [ msgs EXCEPT ![s] = MsgsAfterClear(s, FALSE) ]
  /\ steps' = [ steps EXCEPT ![s] = StepsAfterClear(s, FALSE) ]
  /\ feedback_value' = [ feedback_value EXCEPT ![s] = value ]
  /\ feedback_text' = [ feedback_text EXCEPT ![s] = text ]
  /\ table' = HandleFeedback(table, s, timestamp, stored)
  /\ feedback_form' = [ feedback_form EXCEPT ![s] = FALSE ]
  /\ ui' = [ ui EXCEPT ![s] =
               Screen(HistoryShown(s, FALSE), "none", None, << >>, << >>, FALSE) ]
  /\ event' = Ev("SubmitFeedback", s, stored)
  /\ UNCHANGED << phase, api_keys, session_id, pc, prompt, fmtVars >>

\* mutant of Reset: the reset clears the shared history store as well
ResetClearsStore(s) ==
  /\ s \in DOMAIN pc
  /\ pc[s] = "Idle"
  /\ msgs' = [ msgs EXCEPT ![s] = MsgsAfterClear(s, TRUE) ]
  /\ steps' = [ steps EXCEPT ![s] = StepsAfterClear(s, TRUE) ]
  /\ table' = EmptyFcn
  /\ ui' = [ ui EXCEPT ![s] =
               Screen(HistoryShown(s, TRUE), "none", None, << >>, << >>,
                      feedback_form[s] = TRUE) ]
  /\ event' = Ev("Reset", s, TRUE)
  /\ UNCHANGED << phase, api_keys, session_id, feedback_form,
                  feedback_value, feedback_text, pc, prompt, fmtVars >>

\* the user clicks "Reset chat history" (lines 162-171, 186): the local
\* history and the steps are cleared and the page is rendered, with the
\* form when feedback_form is True
Reset(s) ==
  /\ s \in DOMAIN pc
  /\ pc[s] = "Idle"
  /\ msgs' = [ msgs EXCEPT ![s] = MsgsAfterClear(s, TRUE) ]
  /\ steps' = [ steps EXCEPT ![s] = StepsAfterClear(s, TRUE) ]
  /\ ui' = [ ui EXCEPT ![s] =
               Screen(HistoryShown(s, TRUE), "none", None, << >>, << >>,
                      feedback_form[s] = TRUE) ]
  /\ event' = Ev("Reset", s, TRUE)
  /\ UNCHANGED << phase, api_keys, table, session_id, feedback_form,
                  feedback_value, feedback_text, pc, prompt, fmtVars >>

Next ==
  \/ \E c \in BOOLEAN, r1, r2 \in SecretResponses : Startup(c, r1, r2)
  \/ \E s \in Sessions : Connect(s)
  \/ \E s \in Sessions, x \in Prompts, ok \in BOOLEAN : Submit(s, x, ok)
  \/ \E s \in Sessions, r \in Responses, ok \in BOOLEAN : AgentSuccess(s, r, ok)
  \/ \E s \in Sessions : AgentFailure(s)
  \/ \E s \in Sessions, v \in Ratings, x \in Comments, t \in Timestamps,
          ok \in BOOLEAN :
       SubmitFeedback(s, v, x, t, ok)
  \/ \E s \in Sessions : Reset(s)

Spec == Init /\ [][Next]_vars

(***************************************************************************)
(* The formatting specification: format_search_results_as_dataframe on     *)
(* document lists whose sources are built of up to MaxPieces pieces.       *)
(***************************************************************************)
Pieces ==
  { S3Prefix, << "s", "3", ":", "/" >>, << "/" >>, << "b" >>,
    << "a", ".", "p", "d", "f" >> }
RECURSIVE Concats(_)
Concats(n) ==
  IF n = 0 THEN { << >> }
  ELSE LET shorter == Concats(n - 1)
       IN  shorter \cup { p \o x : p \in Pieces, x \in shorter }
FmtSources == Concats(MaxPieces)
FmtDocuments ==
  { [ metadata |-> [ title |-> "FSA Handbook", page |-> "12",
                     relevance_score |-> 87, source |-> x ] ] : x \in FmtSources }
    \cup { [ metadata |-> [ title |-> "FSA Handbook" ] ] }
FmtInputs == { << >> } \cup { << d >> : d \in FmtDocuments }

InitFmt ==
  /\ phase = "starting"
  /\ api_keys = EmptyFcn
  /\ table = EmptyFcn
  /\ session_id = EmptyFcn
  /\ feedback_form = EmptyFcn
  /\ feedback_value = EmptyFcn
  /\ feedback_text = EmptyFcn
  /\ steps = EmptyFcn
  /\ msgs = EmptyFcn
  /\ pc = EmptyFcn
  /\ prompt = EmptyFcn
  /\ ui = EmptyFcn
  /\ event = Ev("Init", "", TRUE)
  /\ documents \in FmtInputs
  /\ dataframe = << >>

Format ==
  /\ event.name = "Init"
  /\ dataframe' = FormatSearchResultsAsDataframe(documents)
  /\ event' = Ev("Format", "", TRUE)
  /\ UNCHANGED << phase, api_keys, table, sessionVars, documents >>

NextFmt == Format

SpecFmt == InitFmt /\ [][NextFmt]_vars

(***************************************************************************)
(* Properties.                                                             *)
(***************************************************************************)
Last(seq) == seq[Len(seq)]
HasPrefix(seq, prefix) ==
  Len(seq) >= Len(prefix) /\ SubSeq(seq, 1, Len(prefix)) = prefix
\* the step just taken was the handler `name` of session s
Did(name, s) == event.name = name /\ event.session = s
\* the message each log of the store ends with
LastStored == { Last(table[k]) : k \in DOMAIN table }

\* C1: the feedback form is offered only after a Turn that ended with a
\* successful agent response: it is not offered when the session has just
\* connected, after a failed Turn, after a reset or after a feedback
\* submission.
C1_FeedbackOnlyAfterSuccess ==
  \A s \in DOMAIN pc :
    (\E n \in { "Connect", "AgentFailure", "Reset", "SubmitFeedback" } : Did(n, s))
      => feedback_form[s] = FALSE /\ ~ui[s].form

\* C2: whenever the agent run succeeds (and the store accepts the write),
\* the answer is the AI message last appended to the History Store and
\* feedback_form is True, whatever the intermediate steps hold.
C2_SuccessRecordsAnswer ==
  \A s \in DOMAIN pc :
    (Did("AgentSuccess", s) /\ event.stored)
      => /\ AIMessage(session_id[s], ui[s].answer) \in LastStored
         /\ feedback_form[s] = TRUE

AppendsOneFeedback(s) ==
  \E k \in DOMAIN table' :
    LET r == Last(table'[k])
    IN  /\ table' = AddMessage(table, k, r)
        /\ r.type = "system"
        /\ r.content = "feedback"
        /\ r.st_session_id = session_id[s]
        /\ r.response_metadata.face_feedback = feedback_value'[s]
        /\ r.response_metadata.score = feedback_value'[s]
        /\ r.response_metadata.feedback_text = feedback_text'[s]
        /\ r.response_metadata.timestamp \in Timestamps

\* C4 (as claimed): each feedback submission appends exactly one Feedback
\* record with the submitted rating and comment, a timestamp and the session
\* identifier, and clears the feedback prompt.
C4_EachSubmissionAppendsOne ==
  [][ \A s \in DOMAIN pc :
        (event'.name = "SubmitFeedback" /\ event'.session = s /\ feedback_form[s] = TRUE)
          => /\ AppendsOneFeedback(s)
             /\ feedback_form'[s] = FALSE
             /\ ~ui'[s].form ]_vars

\* C4 (amended): a feedback submission whose store write succeeds appends
\* exactly one such Feedback record; one whose write raises appends nothing;
\* either way the feedback prompt is cleared.
C4_SubmissionAppendsAtMostOne ==
  [][ \A s \in DOMAIN pc :
        (event'.name = "SubmitFeedback" /\ event'.session = s /\ feedback_form[s] = TRUE)
          => /\ event'.stored => AppendsOneFeedback(s)
             /\ ~event'.stored => table' = table
             /\ feedback_form'[s] = FALSE
             /\ ~ui'[s].form ]_vars

\* C4 witness: a feedback with rating 5 and text "Helpful" has just been
\* stored after the session's own question and answer.
C4_Witness ==
  \E s \in DOMAIN pc :
    /\ Did("SubmitFeedback", s)
    /\ event.stored
    /\ feedback_form[s] = FALSE
    /\ feedback_value[s] = MaxRating
    /\ feedback_text[s] = "Helpful"
    /\ \E m \in LastStored : m.type = "system" /\ m.st_session_id = session_id[s]

\* C5: a reset clears the local memory, the stored steps and the displayed
\* history of the session, and leaves the History Store as it was.
C5_ResetKeepsStore ==
  [][ \A s \in DOMAIN pc :
        (event'.name = "Reset" /\ event'.session = s)
          => /\ msgs'[s] = << >>
             /\ steps'[s] = EmptyFcn
             /\ ui'[s].history = << >>
             /\ table' = table ]_vars

\* C5 witness: a session whose answered Turn is in the store has just been
\* reset.
C5_Witness ==
  \E s \in DOMAIN pc :
    /\ Did("Reset", s)
    /\ msgs[s] = << >>
    /\ \E k \in DOMAIN table : \E i \in DOMAIN table[k] :
         table[k][i].type = "ai" /\ table[k][i].id = session_id[s]

\* C6: no "_Exception" invocation is rendered as an intermediate step or
\* used as the input of the citation extraction.
C6_ExceptionNeverUsed ==
  \A s \in DOMAIN ui :
    /\ \A i \in DOMAIN ui[s].citeFrom : ui[s].citeFrom[i] # ExceptionTool
    /\ \A i \in DOMAIN ui[s].history :
         \A j \in DOMAIN ui[s].history[i].rendered :
           ui[s].history[i].rendered[j].tool # ExceptionTool

\* the session identifier a stored message carries
SessionOf(m) == IF m.type = "system" THEN m.st_session_id ELSE m.id

\* C7: every message is in the log keyed by the identifier of the session
\* that produced it, so no log holds the writes of two sessions.
C7_PerSessionLogs ==
  \A k \in DOMAIN table : \A i \in DOMAIN table[k] : SessionOf(table[k][i]) = k

\* C8: no user request is served while a required API key is absent.
C8_NoServiceWithoutKeys ==
  \A s \in DOMAIN pc :
    pc[s] = "Processing"
      => api_keys.PINECONE_API_KEY # None /\ api_keys.COHERE_API_KEY # None

\* C9: a source that begins with "s3://" is shown as
\* "https://s3.amazonaws.com/" followed by the rest of the source as it is;
\* any other source is shown unchanged.
C9_PrefixOnlyRewrite ==
  event.name = "Format"
    => \A i \in DOMAIN documents :
         LET source == Get(documents[i].metadata, "source", << >>)
         IN  dataframe[i].Source =
               IF HasPrefix(source, S3Prefix)
               THEN HttpsPrefix \o SubSeq(source, Len(S3Prefix) + 1, Len(source))
               ELSE source

\* C10: a Sources table is rendered only for at least one Document: no
\* rendered table is empty.
C10_NoEmptySourcesTable ==
  \A s \in DOMAIN ui :
    \A i \in DOMAIN ui[s].tables : Len(ui[s].tables[i]) >= 1

=============================================================================
